---------------------------- MODULE Spec2Model ----------------------------
(***************************************************************************)
(* A model of the device-orchestration core of psychopy:                   *)
(*   - the Device Registry   (psychopy/hardware/manager.py)                *)
(*   - the BBTK TPad driver  (psychopy/hardware/bbtk/tpad.py)              *)
(*   - the listener fan-out exercised by tests/test_liaison                *)
(* Each component has its own specification over the shared variables:     *)
(* SpecMgr, SpecAdd, SpecTPad and SpecLiaison.                             *)
(***************************************************************************)
EXTENDS Integers, Sequences, FiniteSets, TLC

VARIABLES
    \* --- manager.py
    instance,       \* DeviceManager.instance: "None" or the one list object
    registry,       \* the contents of that list object, in order
    nextInst,       \* how many device objects have been constructed so far
    mgrCall,        \* the last call on the manager and how it ended
    \* --- tpad.py
    pc,             \* where the driver's current call stands ("idle": none)
    pending,        \* lines of the current read dispatchMessages has yet to handle
    nRead,          \* lines read from the port so far
    tpMessages,     \* TPad.messages: timestamp |-> raw line
    lastTimerReset, \* TPad._lastTimerReset, in milliseconds
    clock,          \* logging.defaultClock.getTime(), in milliseconds
    wire,           \* what the current (or last) driver call did on the port
    tpCall,         \* the driver's current (or last) call and how it ended
    \* --- sub-device handlers and their listeners
    devLog,         \* handler |-> its .messages list of Responses
    pdThreshold,    \* photodiode number |-> its _threshold
    listeners,      \* the (device, connection) pairs with a listener attached
    connMessages,   \* connection |-> the messages passed to its send()
    \* --- the RPC/event server
    srvMethods,     \* server._methods: name |-> <<class or instance, exposed methods>>
    inbox,          \* connection |-> its requests that have arrived, oldest first
    running,        \* connection |-> the request being processed and its answer
    nArrived,       \* requests that have arrived so far
    srvCall,        \* the request processed last and how it was resolved
    srvUp,          \* the server is running
    connOpen,       \* connection |-> it is open
    \* --- callers of registerDevice that run concurrently
    callerPc,       \* caller |-> where it stands in registerDevice
    callerDev,      \* caller |-> the device it is registering
    \* --- port auto-detection
    profiles,       \* the profiles systemProfilerWindowsOS returns
    detectCall      \* how the last _detectComPort call ended

mgrVars == <<instance, registry, nextInst, mgrCall>>
tpVars == <<pc, pending, nRead, tpMessages, lastTimerReset, clock, wire,
            tpCall>>
devVars == <<devLog, pdThreshold, listeners, connMessages>>
srvVars == <<srvMethods, inbox, running, nArrived, srvCall, srvUp, connOpen>>
callerVars == <<callerPc, callerDev>>
portVars == <<profiles, detectCall>>

vars == <<instance, registry, nextInst, mgrCall,
          pc, pending, nRead, tpMessages, lastTimerReset, clock, wire,
          tpCall, devLog, pdThreshold, listeners, connMessages,
          srvMethods, inbox, running, nArrived, srvCall, srvUp, connOpen,
          callerPc, callerDev, profiles, detectCall>>

\* ------------------------------------------------------------------ bounds

\* device objects constructed by callers of registerDevice
MaxInstances == 3
\* entries in one spec list handed to addDevicesFromSpec
MaxSpecLen == 2
\* lines one read of the port returns
MaxRead == 2
\* lines read from the port over a run
MaxLines == 3
\* milliseconds the host clock is followed for
MaxClock == 1
\* receiveMessage calls made on the handlers directly
MaxReceives == 3

\* ------------------------------------------------------- Device Registry

NoName == "<no name>"

\* _deviceAddMethods after the class body has run: key |-> the parameters of
\* the decorated function that follow its first one (`self`), split into the
\* ones without a default and the ones with a default.
deviceAddMethods ==
    [Keyboard   |-> [required |-> {}, optional |-> {"backend", "device"}],
     Mouse      |-> [required |-> {"name"}, optional |-> {}],
     Microphone |-> [required |-> {"name", "device"},
                     optional |-> {"sampleRate", "channels"}],
     Camera     |-> [required |-> {"name"}, optional |-> {"device", "backend"}],
     Serial     |-> [required |-> {"name", "port"},
                     optional |-> {"baudrate", "byteSize", "stopBits", "parity"}],
     TPad       |-> [required |-> {"name", "port"}, optional |-> {}]]

\* A device object as registerDevice sees it: its class, its identity
\* parameters and which object it is.
DeviceClasses == {"Keyboard", "Mouse"}
Identities == {"dev0", "dev1"}
Device(cls, ident, inst) == [cls |-> cls, ident |-> ident, inst |-> inst]

\* obj.isSameDevice(params): the device classes are not part of this source
\* tree; identity is the (type, identity-parameters) tuple.
isSameDevice(obj, params) == obj.cls = params.cls /\ obj.ident = params.ident

RECURSIVE scanFrom(_, _, _)
\* the loop of registerDevice from index i: TRUE when some obj from there on
\* answers isSameDevice
scanFrom(reg, device, i) ==
    IF i > Len(reg) THEN FALSE
    ELSE IF isSameDevice(reg[i], device) THEN TRUE
    ELSE scanFrom(reg, device, i + 1)

\* a registerDevice that appends without scanning
registerAlwaysAppend(reg, device) == Append(reg, device)

\* a registerDevice that puts the new object in the place of the one it finds
registerSubstitute(reg, device) ==
    IF scanFrom(reg, device, 1)
    THEN [i \in 1..Len(reg) |->
            IF isSameDevice(reg[i], device) THEN device ELSE reg[i]]
    ELSE Append(reg, device)

\* the list after registerDevice(device)
registerDeviceResult(reg, device) ==
    IF scanFrom(reg, device, 1) THEN reg ELSE Append(reg, device)

NoCall == [op |-> "none", err |-> "none"]

\* DeviceManager(): __new__ creates the list object on the first call and
\* returns the stored one afterwards; the class defines no __init__, so
\* type.__call__ then runs list.__init__(obj) with no iterable, which empties
\* the list.
DeviceManagerNew ==
    /\ instance' = "mgr"
    /\ registry' = <<>>
    /\ mgrCall' = [op |-> "DeviceManager", err |-> "none",
                   created |-> (instance = "None"), returned |-> "mgr"]
    /\ UNCHANGED <<nextInst, tpVars, devVars, srvVars,
                 callerVars,
                   portVars>>

RegisterDevice(cls, ident) ==
    /\ instance # "None"
    /\ nextInst < MaxInstances
    /\ LET device == Device(cls, ident, nextInst + 1) IN
        /\ registry' = registerDeviceResult(registry, device)
        /\ mgrCall' = [op |-> "registerDevice", err |-> "none",
                       device |-> device,
                       found |-> scanFrom(registry, device, 1)]
    /\ nextInst' = nextInst + 1
    /\ UNCHANGED <<instance, tpVars, devVars, srvVars,
                 callerVars,
                   portVars>>

\* The spec entries the model hands to addDevicesFromSpec: `type`, an optional
\* `name`, and the keys that remain once both are popped.
SpecTypes == {"Keyboard", "Mouse", "Joystick"}
SpecNames == {NoName, "kb"}
SpecItems ==
    [type : SpecTypes, name : SpecNames, keys : {{}}]
    \cup {[type |-> "Keyboard", name |-> "kb", keys |-> {"device"}],
          [type |-> "Keyboard", name |-> "kb", keys |-> {"port"}]}
SpecLists == UNION {[1..n -> SpecItems] : n \in 0..MaxSpecLen}

\* The body of an add* method once its arguments are bound. addKeyboard
\* builds and returns a Keyboard and stores nothing; addMouse, addMicrophone,
\* addCamera and addSerialDevice assign self[name] with a str name, which
\* neither a list nor a str accepts as an index; addTPad raises.
addMethodBody(type) ==
    CASE type = "Keyboard" -> "none"
      [] type = "TPad" -> "NotImplementedError"
      [] OTHER -> "TypeError"

\* _deviceAddMethods[ioType](name, **item): the stored function is a plain
\* function, so `name` is bound to its first parameter and the keys of item
\* to the rest.
callAddMethod(item) ==
    IF item.type \notin DOMAIN deviceAddMethods THEN "KeyError"
    ELSE LET sig == deviceAddMethods[item.type] IN
        IF sig.required \subseteq item.keys
           /\ item.keys \subseteq (sig.required \cup sig.optional)
        THEN addMethodBody(item.type)
        ELSE "TypeError"

RECURSIVE addFromSpecLoop(_, _, _)
\* the for-loop of addDevicesFromSpec from entry i on; made is the list of
\* (type, name) for which a constructor has run and returned
addFromSpecLoop(spec, i, made) ==
    IF i > Len(spec) THEN [err |-> "none", at |-> 0, made |-> made]
    ELSE LET item == spec[i] IN
        IF item.name = NoName
        THEN \* `while name in self.devices`: the list has no such attribute
             [err |-> "AttributeError", at |-> i, made |-> made]
        ELSE LET e == callAddMethod(item) IN
            IF e # "none" THEN [err |-> e, at |-> i, made |-> made]
            ELSE addFromSpecLoop(spec, i + 1,
                    Append(made, [type |-> item.type, name |-> item.name]))

AddDevicesFromSpec(spec) ==
    /\ instance # "None"
    /\ LET r == addFromSpecLoop(spec, 1, <<>>) IN
        mgrCall' = [op |-> "addDevicesFromSpec", err |-> r.err, at |-> r.at,
                    made |-> r.made, spec |-> spec, before |-> registry]
    /\ UNCHANGED <<instance, registry, nextInst, tpVars, devVars, srvVars,
                 callerVars,
                   portVars>>

\* mgr.addKeyboard(), mgr.addMouse(name), ... called on the manager itself
CallAddMethod(type) ==
    /\ instance # "None"
    /\ mgrCall' = [op |-> "add", err |-> addMethodBody(type), type |-> type]
    /\ UNCHANGED <<instance, registry, nextInst, tpVars, devVars, srvVars,
                 callerVars,
                   portVars>>

\* ------------------------------------------------------------ TPad driver

\* keys of channelCodes, stateCodes and buttonCodes
channelCodes == {"A", "C", "M", "T"}
stateCodes == {"P", "R"}
buttonCodes == {"1", "2", "3", "4", "5", "6", "7", "8", "9", "0", "[", "]"}

Digits == {"0", "1", "2", "3", "4", "5", "6", "7", "8", "9"}
digitValue(c) ==
    CASE c = "0" -> 0 [] c = "1" -> 1 [] c = "2" -> 2 [] c = "3" -> 3
      [] c = "4" -> 4 [] c = "5" -> 5 [] c = "6" -> 6 [] c = "7" -> 7
      [] c = "8" -> 8 [] c = "9" -> 9

\* A line of device output is a sequence of characters. The lines the model
\* lets the device send:
lineOpto1On  == <<"C", " ", "P", " ", "1", " ", "5", "0", "0">>
lineOpto2Off == <<"C", " ", "R", " ", "2", " ", "0">>
lineNoise    == <<"Z", " ", "Q", " ", "9", " ", "a", "b", "c">>
lineButton   == <<"A", " ", "P", " ", "1", " ", "7">>
lineVoice    == <<"M", " ", "R", " ", "1", " ", "7">>
lineTTL      == <<"T", " ", "P", " ", "1", " ", "7">>
lineBracket  == <<"C", " ", "P", " ", "[", " ", "7">>
lineNoTime   == <<"C", " ", "P", " ", "1", " ">>
lineJunkTail == <<"C", " ", "R", " ", "1", " ", "5", "0", "0", "x">>
lineShort    == <<"C", " ", "P", " ", "1">>
WireLines == {lineOpto1On, lineOpto2Off, lineNoise, lineButton, lineVoice,
              lineTTL, lineBracket, lineNoTime, lineJunkTail, lineShort}

RECURSIVE digitRun(_, _)
\* (\d*) from position i: the longest run of digits starting there
digitRun(line, i) ==
    IF i <= Len(line) /\ line[i] \in Digits
    THEN <<line[i]>> \o digitRun(line, i + 1)
    ELSE <<>>

\* re.match(messageFormat, line): the pattern is anchored at the start of the
\* line only, and its last group may be empty
matchesFormat(line) ==
    /\ Len(line) >= 6
    /\ line[1] \in channelCodes
    /\ line[2] = " "
    /\ line[3] \in stateCodes
    /\ line[4] = " "
    /\ line[5] \in buttonCodes
    /\ line[6] = " "

\* splitTPadMessage: the groups of the match
splitTPadMessage(line) == <<line[1], line[3], line[5], digitRun(line, 7)>>

RECURSIVE decimalValue(_, _)
\* the number a non-empty digit string denotes (acc: value of the digits read)
decimalValue(str, acc) ==
    IF str = <<>> THEN acc
    ELSE decimalValue(Tail(str), 10 * acc + digitValue(Head(str)))

\* self.photodiodes, self.buttons, self.voicekeys: the numbers they are keyed by
photodiodeNumbers == 1..2
buttonNumbers == 1..10
voicekeyNumbers == 1..1

Conns == {"c1", "c2"}
Handlers == {"pd1", "pd2", "kb"}
photodiode(n) == IF n = 1 THEN "pd1" ELSE "pd2"
NoNode == [kind |-> "None", number |-> 0]

\* the notification a Response is turned into for a listening connection
notification(resp) ==
    [type |-> "hardware_response", class |-> resp.class,
     data |-> [t |-> resp.t, value |-> resp.value]]

\* a send that stores nothing
sendDropped(msgs, msg) == msgs

\* TestingProtocol.send: the decoded message is stored (before any error it
\* carries is raised)
send(msgs, msg) == Append(msgs, msg)

\* handler.receiveMessage(resp): the Response joins the handler's log and each
\* connection listening to the handler is sent one notification
receiveMessage(dev, resp, log, conns, lst) ==
    [log |-> [log EXCEPT ![dev] = Append(@, resp)],
     conns |-> [c \in Conns |->
                  IF <<dev, c>> \in lst
                  THEN send(conns[c], notification(resp))
                  ELSE conns[c]]]

\* TPadPhotodiode.parseMessage on the tuple dispatchMessages hands it
parseMessage(number, parts, threshold) ==
    [class |-> "PhotodiodeResponse", t |-> parts[4],
     value |-> (IF parts[2] = "P" THEN TRUE
                ELSE IF parts[2] = "R" THEN FALSE ELSE parts[2]),
     threshold |-> threshold]

\* the node dispatchMessages chooses for (channel, button)
chooseNode(channel, button) ==
    LET n1 == IF channel = "A" /\ button \in buttonNumbers
              THEN [kind |-> "button", number |-> button] ELSE NoNode
        n2 == IF channel = "C" /\ button \in photodiodeNumbers
              THEN [kind |-> "photodiode", number |-> button] ELSE n1
    IN  IF channel = "M" /\ button \in voicekeyNumbers
        THEN [kind |-> "voicekey", number |-> button] ELSE n2

\* a timestamp that leaves the reset epoch out
timestampNoEpoch(timeField, epoch) == decimalValue(timeField, 0)

\* float(time) / 1000 + self._lastTimerReset, in milliseconds
timestamp(timeField, epoch) == decimalValue(timeField, 0) + epoch

\* The body of the `if re.match(...)` of dispatchMessages, for a line that
\* matches. The outcome: err, the new TPad.messages, the node chosen, and the
\* Response delivered to it (delivered is empty or holds that one delivery).
dispatchMatched(line, msgs, epoch, thresholds) ==
    LET g == splitTPadMessage(line)
        raised == [err |-> "ValueError", matched |-> TRUE, msgs |-> msgs,
                   node |-> NoNode, delivered |-> <<>>]
    IN
    IF g[3] \notin Digits THEN raised          \* int(button)
    ELSE IF g[4] = <<>> THEN raised            \* float(time)
    ELSE
    LET button == digitValue(g[3])
        time == timestamp(g[4], epoch)
        parts == <<g[1], g[2], button, time>>
        stored == [t \in DOMAIN msgs \cup {time} |->
                     IF t = time THEN line ELSE msgs[t]]
        node == chooseNode(g[1], button)
    IN  IF node = NoNode
        THEN [err |-> "none", matched |-> TRUE, msgs |-> stored,
              node |-> node, delivered |-> <<>>]
        ELSE IF node.kind # "photodiode"
        THEN \* TPadButton and TPadVoicekey define no parseMessage
             [err |-> "AttributeError", matched |-> TRUE, msgs |-> stored,
              node |-> node, delivered |-> <<>>]
        ELSE [err |-> "none", matched |-> TRUE, msgs |-> stored,
              node |-> node,
              delivered |-> <<[node |-> node,
                               resp |-> parseMessage(node.number, parts,
                                          thresholds[node.number])]>>]

\* a loop body without the `if re.match(...)`: splitTPadMessage is applied to
\* every line, and fails on the None that re.match returns for a line that
\* does not match
dispatchLineUnguarded(line, msgs, epoch, thresholds) ==
    IF ~matchesFormat(line)
    THEN [err |-> "AttributeError", matched |-> FALSE, msgs |-> msgs,
          node |-> NoNode, delivered |-> <<>>]
    ELSE dispatchMatched(line, msgs, epoch, thresholds)

\* one pass of the body of the for-loop of dispatchMessages
dispatchLine(line, msgs, epoch, thresholds) ==
    IF ~matchesFormat(line)
    THEN [err |-> "none", matched |-> FALSE, msgs |-> msgs,
          node |-> NoNode, delivered |-> <<>>]
    ELSE dispatchMatched(line, msgs, epoch, thresholds)

\* dispatchMessages up to its loop: the read and the pause
DispatchBegin(n) ==
    /\ pc = "idle"
    /\ nRead + n <= MaxLines
    /\ pc' = "dispatch"
    /\ pending' = n
    /\ nRead' = nRead + n
    /\ wire' = <<"getResponse", "pause">>
    /\ tpCall' = [op |-> "dispatchMessages", err |-> "none", done |-> FALSE,
                  handled |-> 0, line |-> <<>>, node |-> NoNode,
                  delivered |-> <<>>]
    /\ UNCHANGED <<tpMessages, lastTimerReset, clock, mgrVars, srvVars, callerVars, devVars,
                   portVars>>

\* one iteration of the loop, on the next line of the read; an error raised in
\* it ends the call
DispatchLine(line) ==
    /\ pc = "dispatch"
    /\ pending > 0
    /\ LET r == dispatchLine(line, tpMessages, lastTimerReset, pdThreshold)
           d == IF r.delivered = <<>> THEN [log |-> devLog, conns |-> connMessages]
                ELSE receiveMessage(photodiode(r.node.number),
                                    r.delivered[1].resp, devLog, connMessages,
                                    listeners)
       IN
        /\ tpMessages' = r.msgs
        /\ devLog' = d.log
        /\ connMessages' = d.conns
        /\ tpCall' = [op |-> "dispatchMessages", err |-> r.err,
                      done |-> (r.err # "none"),
                      handled |-> tpCall.handled + 1, line |-> line,
                      node |-> r.node, delivered |-> r.delivered]
        /\ pc' = IF r.err = "none" THEN "dispatch" ELSE "idle"
        /\ pending' = IF r.err = "none" THEN pending - 1 ELSE 0
    /\ UNCHANGED <<nRead, lastTimerReset, clock, wire, mgrVars, srvVars, callerVars,
                   pdThreshold, listeners,
                   portVars>>

\* the loop has run out of lines: dispatchMessages returns
DispatchEnd ==
    /\ pc = "dispatch"
    /\ pending = 0
    /\ pc' = "idle"
    /\ tpCall' = [tpCall EXCEPT !.done = TRUE]
    /\ UNCHANGED <<pending, nRead, tpMessages, lastTimerReset, clock, wire,
                   mgrVars, srvVars, callerVars, devVars,
                   portVars>>

\* a mode command that ignores the mode asked for
modeCommandAlways3(m) == "MOD3"

\* f"MOD{mode}" for the modes the driver uses
modeCommand(m) == IF m = 0 THEN "MOD0" ELSE "MOD3"

\* a setMode that drains between the exit command and the mode command
setModeDrainFirst(m, faultX, faultMod) ==
    LET exit == IF faultX THEN <<"fault">> ELSE <<"X", "getResponse">> IN
    IF faultMod
    THEN [err |-> "SerialException", events |-> exit \o <<"fault">>]
    ELSE [err |-> "none", events |-> exit \o <<modeCommand(m), "pause">>]

\* a setMode without the try around the exit command
setModeExitRaises(m, faultX, faultMod) ==
    IF faultX THEN [err |-> "SerialException", events |-> <<"fault">>]
    ELSE IF faultMod
    THEN [err |-> "SerialException", events |-> <<"X", "pause", "fault">>]
    ELSE [err |-> "none",
          events |-> <<"X", "pause", modeCommand(m), "pause", "getResponse">>]

\* TPad.setMode(m): what it does on the port and how it ends. faultX,
\* faultMod: sendMessage raises SerialException on the X command, on the MOD
\* command.
setMode(m, faultX, faultMod) ==
    LET exit == IF faultX THEN <<"fault">> ELSE <<"X", "pause">> IN
    IF faultMod
    THEN [err |-> "SerialException", events |-> exit \o <<"fault">>]
    ELSE [err |-> "none",
          events |-> exit \o <<modeCommand(m), "pause", "getResponse">>]

\* resetTimer, first statement: self.setMode(0)
ResetTimerSetMode0(faultX, faultMod) ==
    /\ pc = "idle"
    /\ LET r == setMode(0, faultX, faultMod) IN
        /\ wire' = r.events
        /\ tpCall' = [op |-> "resetTimer", err |-> r.err,
                      done |-> (r.err # "none")]
        /\ pc' = IF r.err = "none" THEN "rt_rest" ELSE "idle"
    /\ UNCHANGED <<pending, nRead, tpMessages, lastTimerReset, clock,
                   mgrVars, srvVars, callerVars, devVars,
                   portVars>>

\* self.sendMessage("REST"); self.pause()
ResetTimerRest(fault) ==
    /\ pc = "rt_rest"
    /\ wire' = wire \o (IF fault THEN <<"fault">> ELSE <<"REST", "pause">>)
    /\ tpCall' = [tpCall EXCEPT !.err = IF fault THEN "SerialException" ELSE "none",
                                !.done = fault]
    /\ pc' = IF fault THEN "idle" ELSE "rt_getTime"
    /\ UNCHANGED <<pending, nRead, tpMessages, lastTimerReset, clock,
                   mgrVars, srvVars, callerVars, devVars,
                   portVars>>

\* self._lastTimerReset = logging.defaultClock.getTime()
ResetTimerGetTime ==
    /\ pc = "rt_getTime"
    /\ lastTimerReset' = clock
    /\ wire' = Append(wire, "getTime")
    /\ pc' = "rt_setMode3"
    /\ UNCHANGED <<pending, nRead, tpMessages, clock, tpCall,
                   mgrVars, srvVars, callerVars, devVars,
                   portVars>>

\* self.setMode(3), and resetTimer returns
ResetTimerSetMode3(faultX, faultMod) ==
    /\ pc = "rt_setMode3"
    /\ LET r == setMode(3, faultX, faultMod) IN
        /\ wire' = wire \o r.events
        /\ tpCall' = [tpCall EXCEPT !.err = r.err, !.done = TRUE]
    /\ pc' = "idle"
    /\ UNCHANGED <<pending, nRead, tpMessages, lastTimerReset, clock,
                   mgrVars, srvVars, callerVars, devVars,
                   portVars>>

\* --------------------------------------------------- driver commands

\* the levels calibratePhotodiode and setThreshold are called with
Levels == {127, 200}

\* f"AAO{number} {threshold}"
aaoCommand(number, level) ==
    "AAO" \o ToString(number) \o " " \o ToString(level)

\* the statements between setMode(0) and setMode(3) of a command, from what
\* the first setMode left: sends is the list of <<command, what follows it,
\* does sendMessage raise>>; the first raise ends the call
RECURSIVE sendAll(_, _)
sendAll(sends, events) ==
    IF sends = <<>> THEN [err |-> "none", events |-> events]
    ELSE IF Head(sends)[3]
    THEN [err |-> "SerialException", events |-> Append(events, "fault")]
    ELSE sendAll(Tail(sends), (events \o <<Head(sends)[1]>>) \o Head(sends)[2])

\* setMode(0); the sends; tail; setMode(3)
command(sends, tail, fx0, fm0, fx3, fm3) ==
    LET enter == setMode(0, fx0, fm0) IN
    IF enter.err # "none" THEN enter
    ELSE LET body == sendAll(sends, enter.events) IN
         IF body.err # "none" THEN body
         ELSE LET leave == setMode(3, fx3, fm3) IN
              [err |-> leave.err,
               events |-> (body.events \o tail) \o leave.events]

\* TPad.isAwake()
isAwake(fx0, fm0, fHelp, fx3, fm3) ==
    command(<< <<"HELP", <<"getResponse">>, fHelp>> >>, <<>>,
            fx0, fm0, fx3, fm3)

\* TPad.calibratePhotodiode(level)
calibratePhotodiode(level, fx0, fm0, fA1, fA2, fx3, fm3) ==
    command(<< <<aaoCommand(1, level), <<>>, fA1>>,
               <<aaoCommand(2, level), <<>>, fA2>> >>, <<"getResponse">>,
            fx0, fm0, fx3, fm3)

\* TPadPhotodiode.setThreshold(threshold), after its first statement
setThreshold(number, threshold, fx0, fm0, fA, fx3, fm3) ==
    command(<< <<aaoCommand(number, threshold), <<"pause">>, fA>> >>, <<>>,
            fx0, fm0, fx3, fm3)

\* a call of setMode from outside the driver's own methods
SetModeCall(m, faultX, faultMod) ==
    /\ pc = "idle"
    /\ LET r == setMode(m, faultX, faultMod) IN
        /\ wire' = r.events
        /\ tpCall' = [op |-> "setMode", err |-> r.err, done |-> TRUE,
                      mode |-> m]
    /\ UNCHANGED <<pc, pending, nRead, tpMessages, lastTimerReset, clock,
                   mgrVars, srvVars, callerVars, devVars,
                   portVars>>

IsAwakeCall(fx0, fm0, fHelp, fx3, fm3) ==
    /\ pc = "idle"
    /\ LET r == isAwake(fx0, fm0, fHelp, fx3, fm3) IN
        /\ wire' = r.events
        /\ tpCall' = [op |-> "isAwake", err |-> r.err, done |-> TRUE]
    /\ UNCHANGED <<pc, pending, nRead, tpMessages, lastTimerReset, clock,
                   mgrVars, srvVars, callerVars, devVars,
                   portVars>>

\* calibratePhotodiode sets no photodiode's own _threshold
CalibratePhotodiodeCall(level, fx0, fm0, fA1, fA2, fx3, fm3) ==
    /\ pc = "idle"
    /\ LET r == calibratePhotodiode(level, fx0, fm0, fA1, fA2, fx3, fm3) IN
        /\ wire' = r.events
        /\ tpCall' = [op |-> "calibratePhotodiode", err |-> r.err,
                      done |-> TRUE, level |-> level]
    /\ UNCHANGED <<pc, pending, nRead, tpMessages, lastTimerReset, clock,
                   mgrVars, srvVars, callerVars, devVars,
                   portVars>>

\* setThreshold stores the threshold before it talks to the device
SetThresholdCall(number, threshold, fx0, fm0, fA, fx3, fm3) ==
    /\ pc = "idle"
    /\ pdThreshold' = [pdThreshold EXCEPT ![number] = threshold]
    /\ LET r == setThreshold(number, threshold, fx0, fm0, fA, fx3, fm3) IN
        /\ wire' = r.events
        /\ tpCall' = [op |-> "setThreshold", err |-> r.err, done |-> TRUE,
                      number |-> number, level |-> threshold]
    /\ UNCHANGED <<pc, pending, nRead, tpMessages, lastTimerReset, clock,
                   mgrVars, srvVars, callerVars, devLog, listeners,
                   connMessages,
                   portVars>>

\* the host clock advances
Tick ==
    /\ clock < MaxClock
    /\ clock' = clock + 1
    /\ UNCHANGED <<pc, pending, nRead, tpMessages, lastTimerReset, wire,
                   tpCall, mgrVars, srvVars, callerVars, devVars,
                   portVars>>

\* ------------------------------------------------------ listener fan-out

\* the devices and Responses of the listener test
LiaisonDevices == {"kb", "pd1"}
responseOf(dev) ==
    IF dev = "kb" THEN [class |-> "KeyPress", t |-> 1234, value |-> "a"]
    ELSE [class |-> "PhotodiodeResponse", t |-> 500, value |-> TRUE,
          threshold |-> "None"]

\* an addListener whose disabling silences the device for every connection
AddListenerClearing(dev, conn, enabled) ==
    /\ listeners' = IF enabled THEN listeners \cup {<<dev, conn>>}
                    ELSE {p \in listeners : p[1] # dev}
    /\ UNCHANGED <<devLog, pdThreshold, connMessages, mgrVars, srvVars,
                   callerVars, tpVars,
                   portVars>>

\* DeviceManager.addListener(device, connection, enabled)
AddListener(dev, conn, enabled) ==
    /\ listeners' = IF enabled THEN listeners \cup {<<dev, conn>>}
                    ELSE listeners \ {<<dev, conn>>}
    /\ UNCHANGED <<devLog, pdThreshold, connMessages, mgrVars, srvVars, callerVars, tpVars,
                   portVars>>

\* dev.receiveMessage(resp) called on the handler, as the listener test does
HandlerReceive(dev) ==
    /\ Len(devLog["kb"]) + Len(devLog["pd1"]) < MaxReceives
    /\ LET d == receiveMessage(dev, responseOf(dev), devLog, connMessages,
                               listeners) IN
        /\ devLog' = d.log
        /\ connMessages' = d.conns
    /\ UNCHANGED <<pdThreshold, listeners, mgrVars, srvVars, callerVars, tpVars,
                   portVars>>

\* ------------------------------------------------------- RPC/event server

\* how many requests arrive in one run
MaxRequests == 2
\* how many Responses the polled keyboard reports in one run
MaxPush == 1

\* the classes setup_class registers, and the names it registers them under
RemoteClasses == {"Session", "DeviceManager"}
registeredName(cls) == IF cls = "Session" THEN "session" ELSE "DeviceManager"

\* what a slot of server._methods starts with: the class, then its instance
classTarget(cls) == [kind |-> "class", cls |-> cls]
instanceTarget(cls) == [kind |-> "instance", cls |-> cls]

\* the methods the first element of a slot has
methodsOf(target) ==
    IF target.kind = "class" THEN {"init"}
    ELSE IF target.cls = "DeviceManager"
    THEN {"init", "registerMethods", "addListener", "addTPad", "_hidden"}
    ELSE {"init", "registerMethods", "start"}

\* the methods registerMethods exposes: the public ones
publicMethods(target) == methodsOf(target) \ {"_hidden"}

\* the requests of a run: runInLiaison(obj, method, *args)
Requests ==
    {[object |-> "session", method |-> "init"],
     [object |-> "DeviceManager", method |-> "init"],
     [object |-> "DeviceManager", method |-> "registerMethods"],
     [object |-> "DeviceManager", method |-> "addListener"],
     [object |-> "DeviceManager", method |-> "addTPad"],
     [object |-> "DeviceManager", method |-> "_hidden"],
     [object |-> "DeviceManager", method |-> "nosuch"]}

NoRequest == [object |-> "none", method |-> "none", seq |-> 0]

\* a failure that is answered like a success
errorAsResult(kind, seq) ==
    [type |-> "result", msg |-> "", value |-> kind, re |-> seq]

\* the two payloads of a response; re is the arrival number of its request
errorPayload(kind, seq) ==
    [type |-> "error", msg |-> kind, value |-> "None", re |-> seq]
resultPayload(value, seq) ==
    [type |-> "result", msg |-> "", value |-> value, re |-> seq]

\* TestingProtocol.send raises RuntimeError once it has stored an error payload
sendRaises(msg) == msg.type = "error"

\* an exception of an invoked method that is let through to the transport
dispatchReraises(exc, seq) ==
    [resp |-> errorPayload(exc, seq), escaped |-> TRUE]

\* the dispatch boundary: an exception of an invoked method becomes a payload
dispatchBoundary(exc, seq) ==
    [resp |-> errorPayload(exc, seq), escaped |-> FALSE]

\* a check that lets through whatever method the instance has
isCallableUnchecked(slot, method) == method \in methodsOf(slot[1])

\* the method may be invoked: it is in the slot's exposed-method set
isCallable(slot, method) == method \in slot[2]

\* an init that leaves the class in the slot
initKeepsClass(slot) == <<slot[1], slot[2] \cup {"registerMethods"}>>

\* init: the first element of the slot becomes an instance of its class
initSlot(slot) ==
    <<instanceTarget(slot[1].cls), slot[2] \cup {"registerMethods"}>>

\* the invoked method itself: what it does to the shared state and what it
\* returns or raises
invoke(slot, req, conn, methods, reg, inst, lst) ==
    LET same == [methods |-> methods, registry |-> reg, instance |-> inst,
                 listeners |-> lst, exc |-> "none", value |-> "None"] IN
    CASE req.method = "init" ->
            \* hardware.DeviceManager(): __new__ and then list.__init__
            [same EXCEPT !.methods = [methods EXCEPT
                                        ![req.object] = initSlot(slot)],
                         !.registry = IF slot[1].cls = "DeviceManager"
                                      THEN <<>> ELSE reg,
                         !.instance = IF slot[1].cls = "DeviceManager"
                                      THEN "mgr" ELSE inst]
      [] req.method = "registerMethods" ->
            [same EXCEPT !.methods = [methods EXCEPT ![req.object] =
                            <<slot[1], slot[2] \cup publicMethods(slot[1])>>]]
      [] req.method = "addListener" ->
            [same EXCEPT !.listeners = lst \cup {<<"kb", conn>>}]
      [] req.method = "addTPad" ->
            [same EXCEPT !.exc = "NotImplementedError"]
      [] OTHER -> same

\* server._processMessage up to the point where the response is ready
processMessage(req, conn, methods, reg, inst, lst) ==
    LET known == methods
        failed(kind) ==
            [methods |-> known, registry |-> reg, instance |-> inst,
             listeners |-> lst, invoked |-> "none", escaped |-> FALSE,
             resp |-> errorPayload(kind, req.seq)] IN
    IF req.object \notin DOMAIN known THEN failed("UnknownObject")
    ELSE LET slot == known[req.object] IN
         IF req.method \notin methodsOf(slot[1]) THEN failed("UnknownMethod")
         ELSE IF ~isCallable(slot, req.method) THEN failed("MethodNotExposed")
         ELSE LET r == invoke(slot, req, conn, known, reg, inst, lst)
                  b == IF r.exc = "none"
                       THEN [resp |-> resultPayload(r.value, req.seq),
                             escaped |-> FALSE]
                       ELSE dispatchBoundary(r.exc, req.seq) IN
              [methods |-> r.methods, registry |-> r.registry,
               instance |-> r.instance, listeners |-> r.listeners,
               invoked |-> req.method, escaped |-> b.escaped,
               resp |-> b.resp]

\* the device-polling activity: the keyboard's handler receives a Response
PollKeyboard ==
    /\ Len(devLog["kb"]) < MaxPush
    /\ LET d == receiveMessage("kb", responseOf("kb"), devLog, connMessages,
                               listeners) IN
        /\ devLog' = d.log
        /\ connMessages' = d.conns
    /\ UNCHANGED <<pdThreshold, listeners, mgrVars, srvVars, callerVars,
                   tpVars,
                   portVars>>

\* the newest request of a connection
takeNewest(q) == [req |-> q[Len(q)], rest |-> SubSeq(q, 1, Len(q) - 1)]

\* the requests of a connection are taken in arrival order
takeRequest(q) == [req |-> Head(q), rest |-> Tail(q)]

NoSrvCall == [conn |-> "none", req |-> NoRequest, invoked |-> "none",
              resp |-> errorPayload("none", 0), phase |-> "none",
              sendErr |-> FALSE]

\* server.registerClass(cls, name)
RegisterClass(cls) ==
    /\ srvUp
    /\ registeredName(cls) \notin DOMAIN srvMethods
    /\ srvMethods' = [n \in DOMAIN srvMethods \cup {registeredName(cls)} |->
                        IF n = registeredName(cls)
                        THEN <<classTarget(cls), {"init"}>>
                        ELSE srvMethods[n]]
    /\ UNCHANGED <<inbox, running, nArrived, srvCall, srvUp, connOpen,
                   mgrVars, tpVars, devVars, callerVars,
                   portVars>>

\* a request arrives on an open connection
Arrive(c, r) ==
    /\ srvUp /\ connOpen[c]
    /\ nArrived < MaxRequests
    /\ nArrived' = nArrived + 1
    /\ inbox' = [inbox EXCEPT ![c] = Append(@, r @@ [seq |-> nArrived + 1])]
    /\ UNCHANGED <<srvMethods, running, srvCall, srvUp, connOpen,
                   mgrVars, tpVars, devVars, callerVars,
                   portVars>>

\* _processMessage(connection, rawText): decode, resolve, invoke
ProcessMessage(c) ==
    /\ srvUp /\ connOpen[c]
    /\ running[c] = NoSrvCall
    /\ inbox[c] # <<>>
    /\ LET t == takeRequest(inbox[c])
           out == processMessage(t.req, c, srvMethods, registry, instance,
                                 listeners)
           call == [conn |-> c, req |-> t.req, invoked |-> out.invoked,
                    resp |-> out.resp, phase |-> "invoked",
                    sendErr |-> FALSE] IN
        /\ inbox' = [inbox EXCEPT ![c] = t.rest]
        /\ running' = [running EXCEPT ![c] = call]
        /\ srvCall' = call
        /\ srvMethods' = out.methods
        /\ registry' = out.registry
        /\ instance' = out.instance
        /\ listeners' = out.listeners
        /\ srvUp' = ~out.escaped
        /\ connOpen' = IF out.escaped THEN [k \in Conns |-> FALSE]
                       ELSE connOpen
    /\ UNCHANGED <<nArrived, nextInst, mgrCall, tpVars, devLog, pdThreshold,
                   connMessages, callerVars,
                   portVars>>

\* _processMessage: the response is written to the requesting connection
Respond(c) ==
    /\ srvUp /\ connOpen[c]
    /\ running[c] # NoSrvCall
    /\ connMessages' = [connMessages EXCEPT ![c] = send(@, running[c].resp)]
    /\ srvCall' = [running[c] EXCEPT !.phase = "answered",
                                     !.sendErr = sendRaises(running[c].resp)]
    /\ running' = [running EXCEPT ![c] = NoSrvCall]
    /\ UNCHANGED <<srvMethods, inbox, nArrived, srvUp, connOpen, mgrVars,
                   tpVars, devLog, pdThreshold, listeners, callerVars,
                   portVars>>

\* ------------------------------------------- concurrent registerDevice

\* the callers that may be inside registerDevice at one time
Callers == {"t1", "t2"}
NoDevice == Device("none", "none", 0)

\* registerDevice, lines 79-81: the caller runs the loop over the registry;
\* it returns if some entry answers isSameDevice and goes on to the append
\* otherwise. Nothing in the method keeps another caller out meanwhile.
RegisterScan(k, cls, ident) ==
    /\ instance # "None"
    /\ callerPc[k] = "idle"
    /\ nextInst < MaxInstances
    /\ nextInst' = nextInst + 1
    /\ LET device == Device(cls, ident, nextInst + 1)
           found == scanFrom(registry, device, 1) IN
        /\ callerPc' = [callerPc EXCEPT ![k] = IF found THEN "idle"
                                               ELSE "append"]
        /\ callerDev' = [callerDev EXCEPT ![k] = IF found THEN NoDevice
                                                 ELSE device]
        /\ mgrCall' = [op |-> "registerDevice", err |-> "none",
                       device |-> device, found |-> found]
    /\ UNCHANGED <<instance, registry, tpVars, devVars, srvVars,
                   portVars>>

\* registerDevice, line 82: self.append(device)
RegisterAppend(k) ==
    /\ callerPc[k] = "append"
    /\ registry' = Append(registry, callerDev[k])
    /\ callerPc' = [callerPc EXCEPT ![k] = "idle"]
    /\ callerDev' = [callerDev EXCEPT ![k] = NoDevice]
    /\ UNCHANGED <<instance, nextInst, mgrCall, tpVars, devVars, srvVars,
                   portVars>>

\* ------------------------------------------------- port auto-detection

\* how many ports the system profiler reports
MaxPorts == 2

\* Device descriptions, as sequences of characters
descCom3      == <<"P", "o", "r", "t", " ", "(", "C", "O", "M", "3", ")">>
descCom12     == <<"(", "C", "O", "M", "1", "2", ")">>
descSerial    == <<"S", "e", "r", "i", "a", "l">>
descNoParen   == <<"C", "O", "M", "3">>
descNoNumber  == <<"(", "C", "O", "M", ")">>
descLetter    == <<"(", "C", "O", "M", "x", ")">>
descDigits    == <<"U", "S", "5", "6", ")">>
descComposite == <<"C", "O", "M", "P", " ", "(", "C", "O", "M", "3", ")">>
Descriptions == {descCom3, descCom12, descSerial, descNoParen, descNoNumber,
                 descLetter, descDigits, descComposite}
Manufacturers == {"FTDI", "Prolific"}

\* one profile of systemProfilerWindowsOS(connected=True, classname="Ports")
Profiles == [manufacturer : Manufacturers, description : Descriptions]
ProfileLists ==
    UNION {[1..n -> Profiles] : n \in 0..MaxPorts}

RECURSIVE find(_, _, _)
\* str.find(sub, start): the lowest index (from 0) at or after start where sub
\* begins, -1 when there is none
find(str, sub, start) ==
    IF start + Len(sub) > Len(str) THEN -1
    ELSE IF SubSeq(str, start + 1, start + Len(sub)) = sub THEN start
    ELSE find(str, sub, start + 1)

\* desc[start:end] for 0 <= start and 0 <= end
slice(str, start, end) == SubSeq(str, start + 1, end)

\* num.isnumeric() on the characters the descriptions are made of
isnumeric(str) ==
    str # <<>> /\ \A i \in 1..Len(str) : str[i] \in Digits

RECURSIVE lastFTDI(_, _, _)
\* the loop over the profiles: the last one whose manufacturer is FTDI stays
lastFTDI(prfs, i, profile) ==
    IF i > Len(prfs) THEN profile
    ELSE lastFTDI(prfs, i + 1,
                  IF prfs[i].manufacturer = "FTDI" THEN <<prfs[i]>>
                  ELSE profile)

NoPort == [err |-> "ConnectionError", port |-> <<>>]

\* TPad._detectComPort(): profile is the empty tuple for None
detectComPort(prfs) ==
    LET profile == lastFTDI(prfs, 1, <<>>) IN
    IF profile = <<>> THEN NoPort
    ELSE LET desc == profile[1].description
             start == find(desc, <<"C", "O", "M">>, 0) + 3
             end == find(desc, <<")">>, start) IN
         IF -1 \in {start, end} THEN NoPort
         ELSE LET num == slice(desc, start, end) IN
              IF ~isnumeric(num) THEN NoPort
              ELSE [err |-> "none", port |-> <<"C", "O", "M">> \o num]

NoDetect == [op |-> "none", err |-> "none", port |-> <<>>]

\* TPad(port=None): __init__ asks _detectComPort for the port
DetectComPort ==
    /\ detectCall.op = "none"
    /\ LET r == detectComPort(profiles) IN
        detectCall' = [op |-> "_detectComPort", err |-> r.err,
                       port |-> r.port]
    /\ UNCHANGED <<profiles, mgrVars, tpVars, devVars, srvVars, callerVars>>

\* --------------------------------------------------------- specifications

NoMessages == [t \in {} |-> <<>>]

\* the driver after TPad.__init__, whose last statement is resetTimer()
InitTPad ==
    /\ pc = "idle"
    /\ pending = 0
    /\ nRead = 0
    /\ tpMessages = NoMessages
    /\ lastTimerReset = 0
    /\ clock = 0
    /\ wire = <<"X", "pause", "MOD0", "pause", "getResponse", "REST", "pause",
                "getTime", "X", "pause", "MOD3", "pause", "getResponse">>
    /\ tpCall = [op |-> "resetTimer", err |-> "none", done |-> TRUE]

InitDev ==
    /\ devLog = [h \in Handlers |-> <<>>]
    /\ pdThreshold = [n \in photodiodeNumbers |-> "None"]
    /\ listeners = {}
    /\ connMessages = [c \in Conns |-> <<>>]

\* the server after liaison.WebSocketServer()
InitSrv ==
    /\ srvMethods = [n \in {} |-> <<>>]
    /\ inbox = [c \in Conns |-> <<>>]
    /\ running = [c \in Conns |-> NoSrvCall]
    /\ nArrived = 0
    /\ srvCall = NoSrvCall
    /\ srvUp = TRUE
    /\ connOpen = [c \in Conns |-> TRUE]

\* no port detection has been asked for
InitPorts ==
    /\ profiles = <<>>
    /\ detectCall = NoDetect

\* nobody is inside registerDevice
InitCallers ==
    /\ callerPc = [k \in Callers |-> "idle"]
    /\ callerDev = [k \in Callers |-> NoDevice]

\* before the module body of manager.py has run
InitMgr ==
    /\ instance = "None"
    /\ registry = <<>>
    /\ nextInst = 0
    /\ mgrCall = NoCall

\* registries a run of registerDevice calls leaves behind
SeedRegistries ==
    {<<>>,
     <<Device("Keyboard", "dev0", 1)>>,
     <<Device("Keyboard", "dev0", 1), Device("Mouse", "dev1", 2)>>}

\* after import of manager.py and some registrations
InitAdd ==
    /\ instance = "mgr"
    /\ registry \in SeedRegistries
    /\ nextInst = Len(registry)
    /\ mgrCall = NoCall

NextMgr ==
    \/ DeviceManagerNew
    \/ \E cls \in DeviceClasses, ident \in Identities : RegisterDevice(cls, ident)

NextAdd ==
    \/ DeviceManagerNew
    \/ \E spec \in SpecLists : AddDevicesFromSpec(spec)
    \/ \E type \in DOMAIN deviceAddMethods : CallAddMethod(type)

NextTPad ==
    \/ \E n \in 0..MaxRead : DispatchBegin(n)
    \/ \E line \in WireLines : DispatchLine(line)
    \/ DispatchEnd
    \/ \E fx, fm \in BOOLEAN : ResetTimerSetMode0(fx, fm)
    \/ \E f \in BOOLEAN : ResetTimerRest(f)
    \/ ResetTimerGetTime
    \/ \E fx, fm \in BOOLEAN : ResetTimerSetMode3(fx, fm)
    \/ Tick

NextLiaison ==
    \/ \E dev \in LiaisonDevices, conn \in Conns, enabled \in BOOLEAN :
            AddListener(dev, conn, enabled)
    \/ \E dev \in LiaisonDevices : HandlerReceive(dev)

\* the registry: construction and registration
InitSpecMgr ==
    InitMgr /\ InitTPad /\ InitDev /\ InitSrv /\ InitCallers /\ InitPorts
SpecMgr == InitSpecMgr /\ [][NextMgr]_vars

\* the registry: construction of devices from specs and by the add* methods
InitSpecAdd ==
    InitAdd /\ InitTPad /\ InitDev /\ InitSrv /\ InitCallers /\ InitPorts
SpecAdd == InitSpecAdd /\ [][NextAdd]_vars

\* the TPad driver, with connection c1 listening to photodiode 1
InitSpecTPad ==
    /\ InitMgr /\ InitTPad /\ InitSrv /\ InitCallers /\ InitPorts
    /\ devLog = [h \in Handlers |-> <<>>]
    /\ pdThreshold = [n \in photodiodeNumbers |-> "None"]
    /\ listeners = {<<"pd1", "c1">>}
    /\ connMessages = [c \in Conns |-> <<>>]
SpecTPad == InitSpecTPad /\ [][NextTPad]_vars

\* handlers, listeners and connections
InitSpecLiaison ==
    InitMgr /\ InitTPad /\ InitDev /\ InitSrv /\ InitCallers /\ InitPorts
SpecLiaison == InitSpecLiaison /\ [][NextLiaison]_vars

\* the server: fresh, or as setup_class and the listener test leave it
SetupMethods ==
    [n \in {"session", "DeviceManager"} |->
        IF n = "session"
        THEN <<instanceTarget("Session"),
               {"init", "registerMethods"} \cup
               publicMethods(instanceTarget("Session"))>>
        ELSE <<instanceTarget("DeviceManager"),
               {"init", "registerMethods"} \cup
               publicMethods(instanceTarget("DeviceManager"))>>]

NextServer ==
    \/ \E cls \in RemoteClasses : RegisterClass(cls)
    \/ \E c \in Conns, r \in Requests : Arrive(c, r)
    \/ \E c \in Conns : ProcessMessage(c)
    \/ \E c \in Conns : Respond(c)
    \/ PollKeyboard

InitSpecServer ==
    /\ InitTPad /\ InitCallers /\ InitPorts
    /\ instance = "mgr"
    /\ registry = <<Device("Keyboard", "dev0", 1)>>
    /\ nextInst = 1
    /\ mgrCall = NoCall
    /\ devLog = [h \in Handlers |-> <<>>]
    /\ pdThreshold = [n \in photodiodeNumbers |-> "None"]
    /\ connMessages = [c \in Conns |-> <<>>]
    /\ inbox = [c \in Conns |-> <<>>]
    /\ running = [c \in Conns |-> NoSrvCall]
    /\ nArrived = 0
    /\ srvCall = NoSrvCall
    /\ srvUp = TRUE
    /\ connOpen = [c \in Conns |-> TRUE]
    /\ \/ srvMethods = [n \in {} |-> <<>>] /\ listeners = {}
       \/ srvMethods = SetupMethods /\ listeners = {<<"kb", "c1">>}
SpecServer == InitSpecServer /\ [][NextServer]_vars

NextRace ==
    \/ \E k \in Callers, cls \in DeviceClasses, ident \in Identities :
            RegisterScan(k, cls, ident)
    \/ \E k \in Callers : RegisterAppend(k)

\* the registry with two callers of registerDevice at a time
InitSpecRace ==
    /\ instance = "mgr"
    /\ registry = <<>>
    /\ nextInst = 0
    /\ mgrCall = NoCall
    /\ InitTPad /\ InitDev /\ InitSrv /\ InitCallers /\ InitPorts
SpecRace == InitSpecRace /\ [][NextRace]_vars

NextCmd ==
    \/ \E m \in {0, 3}, fx, fm \in BOOLEAN : SetModeCall(m, fx, fm)
    \/ \E fx, fm \in BOOLEAN : ResetTimerSetMode0(fx, fm)
    \/ \E f \in BOOLEAN : ResetTimerRest(f)
    \/ ResetTimerGetTime
    \/ \E fx, fm \in BOOLEAN : ResetTimerSetMode3(fx, fm)
    \/ \E fx0, fm0, fHelp, fx3, fm3 \in BOOLEAN :
            IsAwakeCall(fx0, fm0, fHelp, fx3, fm3)
    \/ \E level \in Levels, fx0, fm0, fA1, fA2, fx3, fm3 \in BOOLEAN :
            CalibratePhotodiodeCall(level, fx0, fm0, fA1, fA2, fx3, fm3)
    \/ \E number \in photodiodeNumbers, threshold \in Levels,
          fx0, fm0, fA, fx3, fm3 \in BOOLEAN :
            SetThresholdCall(number, threshold, fx0, fm0, fA, fx3, fm3)

\* the driver's commands, each with a fault possible at every send
InitSpecCmd ==
    InitMgr /\ InitTPad /\ InitDev /\ InitSrv /\ InitCallers /\ InitPorts
SpecCmd == InitSpecCmd /\ [][NextCmd]_vars

NextDetect == DetectComPort

\* a TPad made without a port, on any list of ports
InitSpecDetect ==
    /\ InitMgr /\ InitDev /\ InitSrv /\ InitCallers
    /\ pc = "idle"
    /\ pending = 0
    /\ nRead = 0
    /\ tpMessages = NoMessages
    /\ lastTimerReset = 0
    /\ clock = 0
    /\ wire = <<>>
    /\ tpCall = [op |-> "none", err |-> "none", done |-> TRUE]
    /\ profiles \in ProfileLists
    /\ detectCall = NoDetect
SpecDetect == InitSpecDetect /\ [][NextDetect]_vars

\* ----------------------------------------------------------------- claims

\* C1: after any sequence of registerDevice calls no two entries of the
\* registry have the same identity (isSameDevice of one against the other is
\* true for no pair of distinct entries), and right after registerDevice(d)
\* exactly one entry has d's identity.
C1_NoTwoSameDevice ==
    /\ \A i, j \in 1..Len(registry) :
          i # j => ~isSameDevice(registry[i], registry[j])
    /\ mgrCall.op = "registerDevice" =>
          Cardinality({i \in 1..Len(registry) :
                         isSameDevice(registry[i], mgrCall.device)}) = 1

\* two devices with one identity have been registered and one entry is there
C1_Witness ==
    /\ mgrCall.op = "registerDevice"
    /\ mgrCall.found
    /\ nextInst = 2
    /\ Len(registry) = 1

\* C2: every DeviceManager() call returns the one registry object and leaves
\* its contents as they were, and no operation empties a registry that holds
\* devices.
C2_ConstructorKeepsRegistry ==
    [][/\ DeviceManagerNew =>
            /\ mgrCall'.returned = instance'
            /\ (instance # "None" => instance' = instance)
            /\ registry' = registry
       /\ registry # <<>> => registry' # <<>>]_vars

\* addDevicesFromSpec was given two entries of one registered type, neither
\* with a name
TwoUnnamedOfOneType(spec) ==
    /\ Len(spec) = 2
    /\ spec[1].type = spec[2].type
    /\ spec[1].type \in DOMAIN deviceAddMethods
    /\ spec[1].name = NoName
    /\ spec[2].name = NoName

\* C3: addDevicesFromSpec on two unnamed entries of one registered type ends
\* without error, has constructed two devices under two distinct names, the
\* first of them the type name, and leaves the registry two entries longer.
C3_TwoUnnamedGetTwoNames ==
    (mgrCall.op = "addDevicesFromSpec" /\ TwoUnnamedOfOneType(mgrCall.spec)) =>
        /\ mgrCall.err = "none"
        /\ Len(mgrCall.made) = 2
        /\ mgrCall.made[1].name = mgrCall.spec[1].type
        /\ mgrCall.made[2].name # mgrCall.made[1].name
        /\ Len(registry) = Len(mgrCall.before) + 2

\* C4: when addDevicesFromSpec reaches an entry whose type has no registered
\* constructor, the call fails at that entry with the unknown-type error (in
\* this code the KeyError of the _deviceAddMethods lookup is the only error
\* that speaks of the type) and the registry is as it was before.
C4_UnknownTypeFails ==
    mgrCall.op = "addDevicesFromSpec" =>
        \A i \in 1..Len(mgrCall.spec) :
            (/\ mgrCall.spec[i].type \notin DOMAIN deviceAddMethods
             /\ (mgrCall.err = "none" \/ mgrCall.at >= i)) =>
                /\ mgrCall.err = "KeyError"
                /\ mgrCall.at = i
                /\ registry = mgrCall.before

\* the I/O of a call, cut down to the commands that set the mode or reset the
\* timer and the reading of the host clock
IsTimerEvent(e) == e \in {"MOD0", "MOD3", "REST", "getTime"}
timerEvents(w) == SelectSeq(w, IsTimerEvent)

\* C5: a line that does not match the message grammar is dropped: the pass
\* of the loop that handles it adds nothing to the driver's message history,
\* delivers nothing to any sub-device (no log grows, no connection is
\* notified), raises nothing, and the loop goes on to the remaining lines of
\* the read.
C5_NonMatchingLineDropped ==
    [][\A line \in WireLines :
          (/\ DispatchLine(line)
           /\ (line \in {lineNoise, lineShort} \/ ~matchesFormat(line))) =>
              /\ ~matchesFormat(line)
              /\ tpMessages' = tpMessages
              /\ devLog' = devLog
              /\ connMessages' = connMessages
              /\ tpCall'.delivered = <<>>
              /\ tpCall'.node = NoNode
              /\ tpCall'.err = "none"
              /\ pc' = "dispatch"
              /\ pending' = pending - 1]_vars

\* a read of two lines has been handled to its end: the first line was noise
\* and left no trace, the second is in the history and was delivered
C5_Witness ==
    /\ tpCall.op = "dispatchMessages"
    /\ tpCall.done
    /\ tpCall.err = "none"
    /\ tpCall.handled = 2
    /\ nRead = 2
    /\ tpCall.line = lineOpto1On
    /\ DOMAIN tpMessages = {500}
    /\ Len(devLog["pd1"]) = 1

\* C6: dispatchMessages raises no error, whatever the device sent.
C6_DispatchNeverRaises ==
    tpCall.op = "dispatchMessages" => tpCall.err = "none"

\* the line is a message of a photodiode that exists, with a time field
IsPhotodiodeLine(line) ==
    /\ matchesFormat(line)
    /\ line[1] = "C"
    /\ line[5] \in {"1", "2"}
    /\ digitRun(line, 7) # <<>>

\* C7: a matching line on channel C with code 1 or 2 and time field rawTime,
\* dispatched while the reset epoch is T0, delivers to that photodiode a
\* Response with value true for state P and false for R and timestamp
\* T0 + rawTime (milliseconds here; T0 + rawTime/1000 in seconds); "C P 1 500"
\* gives true and T0 + 500 ms, and rawTime 0 gives T0.
C7_PhotodiodeResponse ==
    (tpCall.op = "dispatchMessages" /\ IsPhotodiodeLine(tpCall.line)) =>
        LET line == tpCall.line
            pd == IF line[5] = "1" THEN 1 ELSE 2
        IN  /\ tpCall.err = "none"
            /\ Len(tpCall.delivered) = 1
            /\ tpCall.delivered[1].node = [kind |-> "photodiode", number |-> pd]
            /\ tpCall.delivered[1].resp.value = (line[3] = "P")
            /\ tpCall.delivered[1].resp.t
                   = lastTimerReset + decimalValue(digitRun(line, 7), 0)
            /\ line = lineOpto1On =>
                   /\ tpCall.delivered[1].resp.value = TRUE
                   /\ tpCall.delivered[1].resp.t = lastTimerReset + 500
            /\ line = lineOpto2Off =>
                   /\ tpCall.delivered[1].resp.value = FALSE
                   /\ tpCall.delivered[1].resp.t = lastTimerReset
            /\ devLog[photodiode(pd)] # <<>>
            /\ devLog[photodiode(pd)][Len(devLog[photodiode(pd)])]
                   = tpCall.delivered[1].resp

\* "C P 1 500" has been dispatched after a timer reset at host time 1
C7_Witness ==
    /\ tpCall.op = "dispatchMessages"
    /\ tpCall.line = lineOpto1On
    /\ lastTimerReset = 1
    /\ Len(tpCall.delivered) = 1
    /\ tpCall.delivered[1].resp.t = 501

\* the driver has a sub-device for (channel, code)
HasSubDevice(channel, code) ==
    \/ channel = "A" /\ code \in buttonNumbers
    \/ channel = "C" /\ code \in photodiodeNumbers
    \/ channel = "M" /\ code \in voicekeyNumbers

\* C8: for a matching line with a digit code and a time field, if (channel,
\* code) names an existing sub-device the pass ends without error with one
\* Response delivered to exactly that sub-device; if it names none, the line
\* is stored in the driver history and nothing is delivered.
C8_DeliveredToItsSubDevice ==
    (/\ tpCall.op = "dispatchMessages"
     /\ matchesFormat(tpCall.line)
     /\ tpCall.line[5] \in Digits
     /\ digitRun(tpCall.line, 7) # <<>>) =>
        LET channel == tpCall.line[1]
            code == digitValue(tpCall.line[5])
        IN  /\ tpCall.err = "none"
            /\ \E t \in DOMAIN tpMessages : tpMessages[t] = tpCall.line
            /\ IF HasSubDevice(channel, code)
               THEN /\ Len(tpCall.delivered) = 1
                    /\ tpCall.delivered[1].node.number = code
                    /\ tpCall.delivered[1].node.kind
                          = (CASE channel = "A" -> "button"
                               [] channel = "C" -> "photodiode"
                               [] channel = "M" -> "voicekey")
               ELSE tpCall.delivered = <<>>

\* C9: resetTimer puts the device in mode 0, then sends REST, then records
\* the host clock as the reset epoch, then puts the device in mode 3: when it
\* returns these four have happened in this order and MOD3 is the last mode
\* commanded; the epoch is recorded after MOD0 and REST and is the clock's
\* reading; the epoch changes at no other step, and a Response decoded later
\* is stamped relative to it.
C9_ResetTimerOrder ==
    /\ [](/\ (tpCall.op = "resetTimer" /\ tpCall.done /\ tpCall.err = "none") =>
                /\ timerEvents(wire) = <<"MOD0", "REST", "getTime", "MOD3">>
                /\ pc = "idle"
          /\ (tpCall.op = "dispatchMessages" /\ tpCall.delivered # <<>>) =>
                tpCall.delivered[1].resp.t
                    = lastTimerReset + decimalValue(digitRun(tpCall.line, 7), 0))
    /\ [][/\ (pc = "rt_getTime" /\ pc' # pc) =>
                /\ timerEvents(wire) = <<"MOD0", "REST">>
                /\ lastTimerReset' = clock
          /\ lastTimerReset' # lastTimerReset => pc = "rt_getTime"]_vars

\* a resetTimer call made after construction has returned, with the host
\* clock at 1 when it was read
C9_Witness ==
    /\ tpCall.op = "resetTimer"
    /\ tpCall.done
    /\ tpCall.err = "none"
    /\ lastTimerReset = 1
    /\ pc = "idle"

isResponse(m) == m.type # "hardware_response"
responsesOf(c) ==
    {i \in 1..Len(connMessages[c]) : isResponse(connMessages[c][i])}

\* C11: a processMessage step on a request whose object is not a key of the
\* server's name -> object map readies an error payload for that connection,
\* invokes nothing, and leaves the map, the device registry and the listener
\* registrations as they were; the step that answers writes that payload to
\* the requesting connection and to no other.
C11_UnknownObjectNoEffect ==
    [][\A c \in Conns :
        /\ (ProcessMessage(c) /\ Head(inbox[c]).object \notin DOMAIN srvMethods)
            => /\ running'[c].resp.type = "error"
               /\ running'[c].invoked = "none"
               /\ srvMethods' = srvMethods
               /\ registry' = registry
               /\ listeners' = listeners
        /\ (Respond(c) /\ running[c].invoked = "none")
            => /\ connMessages'[c] = Append(connMessages[c], running[c].resp)
               /\ \A k \in Conns \ {c} : connMessages'[k] = connMessages[k]
               /\ srvMethods' = srvMethods
               /\ registry' = registry
               /\ listeners' = listeners]_vars

\* a request for an unregistered object has been answered, with devices
\* registered and a listener in place
C11_Witness ==
    /\ srvCall.phase = "answered"
    /\ srvCall.resp.msg = "UnknownObject"
    /\ srvCall.req.object \notin DOMAIN srvMethods
    /\ registry # <<>>
    /\ Len(connMessages[srvCall.conn]) > 0

\* the exception of an invoked method has reached connection c as an error
\* payload, or is about to
RaisedFor(c) ==
    \/ running[c].resp.msg = "NotImplementedError"
    \/ \E i \in 1..Len(connMessages[c]) :
            /\ connMessages[c][i].type = "error"
            /\ connMessages[c][i].msg = "NotImplementedError"

\* C12: once an invoked method has raised, the server is still running, every
\* connection is still open, every connection with a waiting request and no
\* request in progress can have it processed, and when the call has been
\* answered the requesting connection, and no other, holds the error payload
\* {type: "error", msg} of that request.
C12_ExceptionBecomesPayload ==
    /\ (\E c \in Conns : RaisedFor(c)) =>
            /\ srvUp
            /\ \A k \in Conns : connOpen[k]
            /\ \A k \in Conns :
                    (inbox[k] # <<>> /\ running[k] = NoSrvCall)
                        => ENABLED ProcessMessage(k)
    /\ (srvCall.invoked = "addTPad") =>
            /\ srvCall.resp.type = "error"
            /\ srvCall.resp.msg = "NotImplementedError"
            /\ srvCall.phase = "answered" =>
                /\ \E i \in 1..Len(connMessages[srvCall.conn]) :
                        connMessages[srvCall.conn][i] = srvCall.resp
                /\ \A k \in Conns \ {srvCall.conn} :
                        \A i \in 1..Len(connMessages[k]) :
                            connMessages[k][i] # srvCall.resp

\* addTPad raised for c1, c1 holds the error payload, and c2 had a later
\* request answered
C12_Witness ==
    /\ \E i \in 1..Len(connMessages["c1"]) :
            /\ connMessages["c1"][i].type = "error"
            /\ connMessages["c1"][i].msg = "NotImplementedError"
            /\ connMessages["c1"][i].re = 1
    /\ \E i \in 1..Len(connMessages["c2"]) :
            /\ connMessages["c2"][i].type = "result"
            /\ connMessages["c2"][i].re = 2

\* C13: a processMessage step on a request for a registered object invokes a
\* method only if it is in the exposed-method set of that object's slot; when
\* the method is missing from the object or from the set, the step readies an
\* UnknownMethod or MethodNotExposed error payload and runs nothing: the map,
\* the registry, the singleton and the listeners are as they were.
C13_OnlyExposedInvoked ==
    [][\A c \in Conns :
        (ProcessMessage(c) /\ Head(inbox[c]).object \in DOMAIN srvMethods) =>
            LET req == Head(inbox[c])
                slot == srvMethods[req.object] IN
            /\ running'[c].invoked # "none" => running'[c].invoked \in slot[2]
            /\ (req.method \notin slot[2] \/
                req.method \notin methodsOf(slot[1])) =>
                    /\ running'[c].invoked = "none"
                    /\ running'[c].resp.type = "error"
                    /\ running'[c].resp.msg \in
                            {"UnknownMethod", "MethodNotExposed"}
                    /\ srvMethods' = srvMethods
                    /\ registry' = registry
                    /\ instance' = instance
                    /\ listeners' = listeners]_vars

\* both refusals have happened: a method the instance has but does not expose,
\* and, on the other connection, a method it lacks
C13_Witness ==
    /\ srvCall.phase = "answered"
    /\ srvCall.req.method = "_hidden"
    /\ srvCall.resp.msg = "MethodNotExposed"
    /\ \E k \in Conns \ {srvCall.conn} :
        \E i \in responsesOf(k) :
            connMessages[k][i].msg = "UnknownMethod"

\* C14: on every connection the responses appear in the arrival order of
\* their requests; while a request of a connection executes, every response
\* the connection holds is for an earlier request and every waiting request
\* arrived later; waiting requests are in arrival order; and every request
\* that has arrived is waiting, executing or answered, so that each earlier
\* request of the connection has its response before a later one starts.
C14_RequestsInArrivalOrder ==
    /\ \A c \in Conns :
        /\ \A i, j \in responsesOf(c) :
                i < j => connMessages[c][i].re < connMessages[c][j].re
        /\ \A i, j \in 1..Len(inbox[c]) :
                i < j => inbox[c][i].seq < inbox[c][j].seq
        /\ \A i \in responsesOf(c), j \in 1..Len(inbox[c]) :
                connMessages[c][i].re < inbox[c][j].seq
        /\ running[c] # NoSrvCall =>
                /\ \A i \in responsesOf(c) :
                        connMessages[c][i].re < running[c].req.seq
                /\ \A j \in 1..Len(inbox[c]) :
                        running[c].req.seq < inbox[c][j].seq
    /\ nArrived =
        Cardinality(responsesOf("c1")) + Cardinality(responsesOf("c2"))
        + Len(inbox["c1"]) + Len(inbox["c2"])
        + (IF running["c1"] # NoSrvCall THEN 1 ELSE 0)
        + (IF running["c2"] # NoSrvCall THEN 1 ELSE 0)

\* connection c1 holds the response to its first request, then an event
\* notification, then the response to its second request
C14_Witness ==
    /\ Len(connMessages["c1"]) = 3
    /\ connMessages["c1"][1].type # "hardware_response"
    /\ connMessages["c1"][1].re = 1
    /\ connMessages["c1"][2].type = "hardware_response"
    /\ connMessages["c1"][3].type # "hardware_response"
    /\ connMessages["c1"][3].re = 2

\* C15: when the request processed last was an init that succeeded, its name
\* is a key of the server's name -> object map and the first element of its
\* slot is an instance of the class registered under that name; and every
\* slot holds the class registered under its name or an instance of it.
C15_InitMakesInstance ==
    /\ (srvCall.invoked = "init" /\ srvCall.resp.type = "result") =>
            /\ srvCall.req.object \in DOMAIN srvMethods
            /\ \E cls \in RemoteClasses :
                    /\ registeredName(cls) = srvCall.req.object
                    /\ srvMethods[srvCall.req.object][1] = instanceTarget(cls)
    /\ \A n \in DOMAIN srvMethods :
            \E cls \in RemoteClasses :
                /\ registeredName(cls) = n
                /\ srvMethods[n][1].cls = cls

\* both classes were registered and initialised by request, the
\* DeviceManager last
C15_Witness ==
    /\ nArrived = 2
    /\ srvCall.phase = "answered"
    /\ srvCall.invoked = "init"
    /\ srvCall.req.object = "DeviceManager"
    /\ srvCall.req.seq = 2
    /\ \E c \in Conns : \E i \in 1..Len(connMessages[c]) :
            connMessages[c][i].type = "result" /\ connMessages[c][i].re = 1
    /\ DOMAIN srvMethods = {"session", "DeviceManager"}
    /\ srvMethods["session"][1] = instanceTarget("Session")
    /\ srvMethods["DeviceManager"][1] = instanceTarget("DeviceManager")
    /\ "addListener" \notin srvMethods["DeviceManager"][2]

C17_DuplicateIsNoOp ==
    [][\A cls \in DeviceClasses, ident \in Identities :
        (/\ RegisterDevice(cls, ident)
         /\ \E i \in 1..Len(registry) :
                registry[i].cls = cls /\ registry[i].ident = ident)
        => /\ registry' = registry
           /\ mgrCall'.err = "none"
           /\ \A i \in 1..Len(registry') :
                registry'[i].inst # mgrCall'.device.inst]_vars

\* a duplicate was registered into a registry of two devices, and the entry
\* with its identity is the older instance
C17_Witness ==
    /\ mgrCall.op = "registerDevice"
    /\ mgrCall.found
    /\ Len(registry) = 2
    /\ \E i \in 1..Len(registry) :
            /\ registry[i].cls = mgrCall.device.cls
            /\ registry[i].ident = mgrCall.device.ident
            /\ registry[i].inst < mgrCall.device.inst

\* C18: with two callers inside registerDevice at a time, the registry never
\* holds two entries of one class and identity, however their scans and
\* appends interleave.
C18_OneEntryUnderInterleaving ==
    \A i, j \in 1..Len(registry) :
        (i < j) =>
            ~(registry[i].cls = registry[j].cls
              /\ registry[i].ident = registry[j].ident)

\* C19 as stated: a setMode call that met no fault sends the exit command,
\* drains the buffered response, then sends the mode-select command, then
\* waits; nothing is drained after the mode-select command.
C19_DrainBeforeModeSelect ==
    (tpCall.op = "setMode" /\ tpCall.err = "none" /\ wire[1] = "X") =>
        \E i, j \in 1..Len(wire) :
            /\ i < j
            /\ wire[i] = "getResponse"
            /\ wire[j] = modeCommand(tpCall.mode)
            /\ \E k \in (j + 1)..Len(wire) : wire[k] = "pause"
            /\ \A k \in (j + 1)..Len(wire) : wire[k] # "getResponse"

\* C19, amended: a setMode call that ends without error has sent the exit
\* command and waited (or met a fault on the exit command and gone on), then
\* sent the mode-select command, waited, and drained the buffered input last;
\* nothing is drained between the exit command and the mode-select command.
C19_DrainAfterModeSelect ==
    (tpCall.op = "setMode" /\ tpCall.err = "none") =>
        \E j \in 1..Len(wire) :
            /\ wire[j] = modeCommand(tpCall.mode)
            /\ SubSeq(wire, 1, j - 1) \in {<<"X", "pause">>, <<"fault">>}
            /\ SubSeq(wire, j + 1, Len(wire)) = <<"pause", "getResponse">>

\* setMode(3) has run without any fault
C19_Witness ==
    /\ tpCall.op = "setMode"
    /\ tpCall.err = "none"
    /\ tpCall.mode = 3
    /\ wire[1] = "X"
    /\ wire[Len(wire)] = "getResponse"

SerialIf(cond) == IF cond THEN "SerialException" ELSE "none"

\* C20: a fault on the exit command of setMode is swallowed and the
\* mode-select command is sent next; a call ends with SerialException exactly
\* when a send other than an exit command met a fault: the mode-select
\* command of setMode (alone, in resetTimer, isAwake, calibratePhotodiode and
\* setThreshold), REST, HELP, or an AAO threshold command.
C20_OnlyExitFaultSwallowed ==
    [][/\ \A m \in {0, 3}, fx, fm \in BOOLEAN :
            (tpCall'.op = "setMode" /\ SetModeCall(m, fx, fm)) =>
                /\ tpCall'.err = SerialIf(fm)
                /\ fx => /\ wire'[1] = "fault"
                         /\ wire'[2] = IF fm THEN "fault" ELSE modeCommand(m)
       /\ \A fx, fm \in BOOLEAN :
            (pc = "idle" /\ tpCall'.op = "resetTimer"
             /\ ResetTimerSetMode0(fx, fm)) =>
                /\ tpCall'.err = SerialIf(fm)
                /\ pc' = IF fm THEN "idle" ELSE "rt_rest"
       /\ \A f \in BOOLEAN :
            (pc = "rt_rest" /\ ResetTimerRest(f)) =>
                /\ tpCall'.err = SerialIf(f)
                /\ f => (tpCall'.done /\ pc' = "idle")
       /\ \A fx, fm \in BOOLEAN :
            (pc = "rt_setMode3" /\ ResetTimerSetMode3(fx, fm)) =>
                tpCall'.err = SerialIf(fm)
       /\ (pc = "idle" /\ tpCall'.op = "isAwake") =>
            \A fx0, fm0, fHelp, fx3, fm3 \in BOOLEAN :
                IsAwakeCall(fx0, fm0, fHelp, fx3, fm3) =>
                    tpCall'.err = SerialIf(fm0 \/ fHelp \/ fm3)
       /\ (pc = "idle" /\ tpCall'.op = "calibratePhotodiode") =>
            \A fx0, fm0, fA1, fA2, fx3, fm3 \in BOOLEAN :
                CalibratePhotodiodeCall(tpCall'.level, fx0, fm0, fA1, fA2,
                                        fx3, fm3) =>
                    tpCall'.err = SerialIf(fm0 \/ fA1 \/ fA2 \/ fm3)
       /\ (pc = "idle" /\ tpCall'.op = "setThreshold") =>
            \A fx0, fm0, fA, fx3, fm3 \in BOOLEAN :
                (wire' = setThreshold(tpCall'.number, tpCall'.level, fx0,
                                      fm0, fA, fx3, fm3).events) =>
                    tpCall'.err = SerialIf(fm0 \/ fA \/ fm3)]_vars

\* setThreshold met a fault on the exit command, went on to MOD0, and ended
\* with the fault its AAO command met
C20_Witness ==
    /\ tpCall.op = "setThreshold"
    /\ tpCall.err = "SerialException"
    /\ wire = <<"fault", "MOD0", "pause", "getResponse", "fault">>

\* the AAO commands the call made last sent for photodiode n, by position
thresholdSends(n) ==
    {i \in 1..Len(wire) : \E v \in Levels : wire[i] = aaoCommand(n, v)}

\* C21: when the call made last was a setThreshold or calibratePhotodiode
\* that returned, then for each photodiode the last threshold command the
\* call sent for its channel carries the threshold the photodiode holds
\* locally.
C21_LocalThresholdIsLastSent ==
    (tpCall.op \in {"setThreshold", "calibratePhotodiode"}
     /\ tpCall.err = "none") =>
        \A n \in photodiodeNumbers :
            \A i \in thresholdSends(n) :
                (\A k \in thresholdSends(n) : k <= i)
                    => wire[i] = aaoCommand(n, pdThreshold[n])

\* C22: no step of the driver removes or replaces an entry of the message
\* history, and a pass of the dispatch loop over a grammar-matching line that
\* raises nothing adds one entry, holding that line, to the entries there
\* were; so n such lines leave n entries.
C22_HistoryAppendOnly ==
    [][/\ \A t \in DOMAIN tpMessages :
            t \in DOMAIN tpMessages' /\ tpMessages'[t] = tpMessages[t]
       /\ \A line \in WireLines :
            (/\ pc = "dispatch"
             /\ matchesFormat(line)
             /\ DispatchLine(line)
             /\ tpCall'.err = "none") =>
                /\ Cardinality(DOMAIN tpMessages') =
                        Cardinality(DOMAIN tpMessages) + 1
                /\ \E t \in DOMAIN tpMessages' \ DOMAIN tpMessages :
                        tpMessages'[t] = line]_vars

\* the numbers n for which the description holds COM, then the decimal
\* digits of n, then a closing parenthesis
comReferences(desc) ==
    {SubSeq(desc, p + 3, q - 1) :
        <<p, q>> \in {pq \in (1..Len(desc)) \X (1..Len(desc)) :
                        /\ pq[1] + 3 < pq[2]
                        /\ SubSeq(desc, pq[1], pq[1] + 2) = <<"C", "O", "M">>
                        /\ \A k \in (pq[1] + 3)..(pq[2] - 1) :
                                desc[k] \in Digits
                        /\ desc[pq[2]] = ")"}}

\* the ports with the manufacturer signature
signedPorts == {i \in 1..Len(profiles) : profiles[i].manufacturer = "FTDI"}

\* C24: a _detectComPort call that returns a port returns COM<n> for a port
\* with manufacturer FTDI whose description holds COM<n> and a closing
\* parenthesis; a call made when no port has the signature, or when the
\* description of the port it settles on holds no such reference, ends with
\* ConnectionError.
C24_PortOnlyFromComReference ==
    (detectCall.op = "_detectComPort") =>
        /\ (detectCall.err = "none") =>
                \E i \in signedPorts :
                    \E n \in comReferences(profiles[i].description) :
                        detectCall.port = <<"C", "O", "M">> \o n
        /\ (signedPorts = {}) => detectCall.err = "ConnectionError"
        /\ \A i \in signedPorts :
                (/\ \A j \in signedPorts : j <= i
                 /\ comReferences(profiles[i].description) = {})
                    => detectCall.err = "ConnectionError"

====
